---- MODULE Spec2Model ----
(* Model of src/src/main.rs: the generic routine `run`, the unified       *)
(* failure FrameworkError, the Stdin/Stdout bindings and `main`.          *)
EXTENDS Integers, Sequences, FiniteSets, TLC

VARIABLES
    caller,     \* who invoked run: "main" (main.rs:192) or "direct" (any other caller of the generic fn)
    endpoint,   \* the Types parameter of run: "StdioEndpoint" or another TypeParamsConstrained implementer
    logic,      \* the L parameter of run: "WorkLogic" or another Logic implementer
    inbuf,      \* lines pending on the process's standard input
    pc,         \* position of the single thread of control
    line,       \* run's local `line`
    t,          \* run's local `t`
    out,        \* texts the output stream has accepted, in order
    calls,      \* collaborator calls made so far, in order
    result,     \* what run returned
    mainResult  \* how main ended

vars == <<caller, endpoint, logic, inbuf, pc, line, t, out, calls, result, mainResult>>

-----------------------------------------------------------------------------
(* Bounds and input domains *)

MaxStdinLines == 2

FullLines == {"hello\n", "\n"}
PartialLines == {"hello"}
AnyLines == FullLines \cup PartialLines \cup {""}

IoErrorKinds == {"BrokenPipe", "InvalidData"}
LogicMessages == {"boom", ""}
WorkLogicValue == 123
Values == {0, WorkLogicValue, 255}

RECURSIVE SeqsUpTo(_, _)
SeqsUpTo(S, n) ==
    IF n = 0 THEN {<<>>}
    ELSE LET shorter == SeqsUpTo(S, n - 1)
         IN  shorter \cup {Append(s, x) : s \in {u \in shorter : Len(u) = n - 1}, x \in S}

\* a stream of newline-terminated lines, optionally followed by an unterminated tail
StdinStreams ==
    LET full == SeqsUpTo(FullLines, MaxStdinLines)
    IN  full \cup {Append(s, p) : s \in full, p \in PartialLines}

-----------------------------------------------------------------------------
(* Error / value types *)

LogicError(msg) == [type |-> "LogicError", msg |-> msg]
IoError(kind) == [type |-> "io::Error", kind |-> kind]

LogicErrors == {LogicError(m) : m \in LogicMessages}
IoErrors == {IoError(k) : k \in IoErrorKinds}

FrameworkErrorCases == {"Logic", "Input", "Output"}

Logic(error) == [case |-> "Logic", inner |-> error]
Input(error) == [case |-> "Input", inner |-> error]
Output(error) == [case |-> "Output", inner |-> error]

FrameworkErrors ==
    {Logic(d) : d \in LogicErrors} \cup {Input(e) : e \in IoErrors} \cup {Output(e) : e \in IoErrors}

FromWrongCase(error) == Output(error)
From(error) == Logic(error)

Some(x) == [some |-> TRUE, val |-> x]

source(fe) ==
    CASE fe.case = "Logic" -> Some(fe.inner)
      [] fe.case = "Input" -> Some(fe.inner)
      [] fe.case = "Output" -> Some(fe.inner)

DisplaySwapped(fe) ==
    CASE fe.case = "Logic" -> "Logic error"
      [] fe.case = "Input" -> "Output error"
      [] fe.case = "Output" -> "Input error"
Display(fe) ==
    CASE fe.case = "Logic" -> "Logic error"
      [] fe.case = "Input" -> "Input error"
      [] fe.case = "Output" -> "Output error"

NoResult == [kind |-> "none"]
Ok(v) == [kind |-> "ok", val |-> v]
Err(e) == [kind |-> "err", err |-> e]

-----------------------------------------------------------------------------
(* Collaborators: each operator is the set of outcomes one call can have *)

\* BufRead::read_line on the pending input: the next line, or "" at end of input
ReadLine(buf) == IF buf = <<>> THEN "" ELSE Head(buf)
Rest(buf) == IF buf = <<>> THEN <<>> ELSE Tail(buf)

StdinRead(buf) ==
    {[ok |-> TRUE, val |-> ReadLine(buf), rest |-> Rest(buf)]}
    \cup {[ok |-> FALSE, err |-> Input(e), rest |-> buf] : e \in IoErrors}

StdoutWriteMistagged(s) ==
    {[ok |-> TRUE]} \cup {[ok |-> FALSE, err |-> Input(e)] : e \in IoErrors}
StdoutWrite(s) ==
    {[ok |-> TRUE]} \cup {[ok |-> FALSE, err |-> Output(e)] : e \in IoErrors}

\* any other implementer of the traits: the signature fixes only the types
OtherRead(buf) ==
    {[ok |-> TRUE, val |-> l, rest |-> buf] : l \in AnyLines}
    \cup {[ok |-> FALSE, err |-> fe, rest |-> buf] : fe \in FrameworkErrors}
OtherWrite(s) ==
    {[ok |-> TRUE]} \cup {[ok |-> FALSE, err |-> fe] : fe \in FrameworkErrors}

InputRead(ep, buf) == IF ep = "StdioEndpoint" THEN StdinRead(buf) ELSE OtherRead(buf)
OutputWrite(ep, s) == IF ep = "StdioEndpoint" THEN StdoutWrite(s) ELSE OtherWrite(s)

WorkLogicDoWork == {[ok |-> TRUE, val |-> WorkLogicValue]}
OtherDoWork ==
    {[ok |-> TRUE, val |-> v] : v \in Values}
    \cup {[ok |-> FALSE, err |-> d] : d \in LogicErrors}
DoWork(l) == IF l = "WorkLogic" THEN WorkLogicDoWork ELSE OtherDoWork

-----------------------------------------------------------------------------
(* run *)

Prompt == "Enter some input:\n"
Prefix == "You entered: "

\* one collaborator call: the operation, its text argument, whether it returned Ok, and what it returned
Call(op, text, ok, ret) == [op |-> op, text |-> text, ok |-> ok, ret |-> ret]

\* the `?` operator: continue on Ok, leave run on Err
QuestionMarkIgnored(ok, next) == next
QuestionMark(ok, next) == IF ok THEN next ELSE "run_returned"

EchoTextTrimmed(l) == IF l = "hello\n" THEN "hello" ELSE IF l = "\n" THEN "" ELSE l
EchoText(l) == l

RunOk(v) == Ok(v)

Init ==
    /\ caller \in {"main", "direct"}
    /\ endpoint \in {"StdioEndpoint", "OtherEndpoint"}
    /\ logic \in {"WorkLogic", "OtherLogic"}
    /\ caller = "main" => endpoint = "StdioEndpoint" /\ logic = "WorkLogic"
    /\ inbuf \in IF endpoint = "StdioEndpoint" THEN StdinStreams ELSE {<<>>}
    /\ pc = IF caller = "main" THEN "main" ELSE "write_prompt"
    /\ line = ""
    /\ t = 0
    /\ out = <<>>
    /\ calls = <<>>
    /\ result = NoResult
    /\ mainResult = NoResult

\* main.rs:193-198, constructing the context and entering run
MainCallRun ==
    /\ pc = "main"
    /\ pc' = "write_prompt"
    /\ UNCHANGED <<caller, endpoint, logic, inbuf, line, t, out, calls, result, mainResult>>

WriteStep(text, next) ==
    \E o \in OutputWrite(endpoint, text) :
        /\ calls' = Append(calls, Call("write", text, o.ok, IF o.ok THEN "unit" ELSE o.err))
        /\ out' = IF o.ok THEN Append(out, text) ELSE out
        /\ result' = IF o.ok THEN result ELSE Err(o.err)
        /\ pc' = QuestionMark(o.ok, next)
        /\ UNCHANGED <<caller, endpoint, logic, inbuf, line, t, mainResult>>

\* main.rs:179
RunWritePrompt ==
    /\ pc = "write_prompt"
    /\ WriteStep(Prompt, "read")

\* main.rs:181
RunRead ==
    /\ pc = "read"
    /\ \E o \in InputRead(endpoint, inbuf) :
        /\ calls' = Append(calls, Call("read", "", o.ok, IF o.ok THEN o.val ELSE o.err))
        /\ inbuf' = o.rest
        /\ line' = IF o.ok THEN o.val ELSE line
        /\ result' = IF o.ok THEN result ELSE Err(o.err)
        /\ pc' = QuestionMark(o.ok, "do_work")
        /\ UNCHANGED <<caller, endpoint, logic, t, out, mainResult>>

\* main.rs:182
RunDoWork ==
    /\ pc = "do_work"
    /\ \E o \in DoWork(logic) :
        /\ calls' = Append(calls, Call("do_work", "", o.ok, IF o.ok THEN o.val ELSE o.err))
        /\ t' = IF o.ok THEN o.val ELSE t
        /\ result' = IF o.ok THEN result ELSE Err(From(o.err))
        /\ pc' = QuestionMark(o.ok, "write_prefix")
        /\ UNCHANGED <<caller, endpoint, logic, inbuf, line, out, mainResult>>

\* main.rs:184
RunWritePrefix ==
    /\ pc = "write_prefix"
    /\ WriteStep(Prefix, "write_line")

\* main.rs:185
RunWriteLine ==
    /\ pc = "write_line"
    /\ WriteStep(EchoText(line), "run_ok")

\* main.rs:187
RunReturnOk ==
    /\ pc = "run_ok"
    /\ result' = RunOk(t)
    /\ pc' = "run_returned"
    /\ UNCHANGED <<caller, endpoint, logic, inbuf, line, t, out, calls, mainResult>>

-----------------------------------------------------------------------------
(* main *)

FormatReturnValue(value) == "Return value: " \o ToString(value) \o ".\n"

\* main.rs:198, the `?` applied to run's result
MainAfterRun ==
    /\ pc = "run_returned"
    /\ caller = "main"
    /\ IF result.kind = "ok"
       THEN /\ pc' = "println"
            /\ UNCHANGED mainResult
       ELSE /\ pc' = "exit"
            /\ mainResult' = Err(result.err)
    /\ UNCHANGED <<caller, endpoint, logic, inbuf, line, t, out, calls, result>>

\* main.rs:199-201; println! panics when the write to stdout fails
MainPrintln ==
    /\ pc = "println"
    /\ \/ /\ out' = Append(out, FormatReturnValue(result.val))
          /\ mainResult' = Ok("unit")
       \/ /\ mainResult' = [kind |-> "panic"]
          /\ UNCHANGED out
    /\ pc' = "exit"
    /\ UNCHANGED <<caller, endpoint, logic, inbuf, line, t, calls, result>>

Next ==
    \/ MainCallRun
    \/ RunWritePrompt
    \/ RunRead
    \/ RunDoWork
    \/ RunWritePrefix
    \/ RunWriteLine
    \/ RunReturnOk
    \/ MainAfterRun
    \/ MainPrintln

Spec == Init /\ [][Next]_vars

\* the repository's own binding of Types: StdioEndpoint (main.rs:143-148)
InitStdio == Init /\ endpoint = "StdioEndpoint"
SpecStdio == InitStdio /\ [][Next]_vars

-----------------------------------------------------------------------------
(* History read off `calls` *)

NumCalls == Len(calls)
Ops == [i \in 1..NumCalls |-> calls[i].op]
CountOp(op) == Cardinality({i \in 1..NumCalls : calls[i].op = op})
WriteTexts ==
    LET ws == SelectSeq(calls, LAMBDA c : c.op = "write")
    IN  [i \in 1..Len(ws) |-> ws[i].text]
AcceptedTexts ==
    LET ws == SelectSeq(calls, LAMBDA c : c.op = "write" /\ c.ok)
    IN  [i \in 1..Len(ws) |-> ws[i].text]
Failed(op) == \E i \in 1..NumCalls : calls[i].op = op /\ ~calls[i].ok
AnyFailed == \E i \in 1..NumCalls : ~calls[i].ok
FailedCall == calls[CHOOSE i \in 1..NumCalls : ~calls[i].ok]
RunReturned == pc \in {"run_returned", "println", "exit"}
\* what run itself wrote: `out` without the line main prints afterwards
RunOut == IF mainResult.kind = "ok" THEN SubSeq(out, 1, Len(out) - 1) ELSE out
IsPrefix(s, u) == Len(s) <= Len(u) /\ \A i \in 1..Len(s) : s[i] = u[i]

(* C1: when run has returned and every collaborator call returned Ok, the  *)
(* calls were write, read, do_work, write, write in that order, the writes *)
(* were exactly the prompt, "You entered: " and the line read, verbatim,   *)
(* and run returned Ok of the value do_work returned.                      *)
C1_SuccessSequence ==
    (RunReturned /\ ~AnyFailed) =>
        /\ Ops = <<"write", "read", "do_work", "write", "write">>
        /\ WriteTexts = <<Prompt, Prefix, calls[2].ret>>
        /\ RunOut = <<Prompt, Prefix, calls[2].ret>>
        /\ result = Ok(calls[3].ret)

C1_Witness ==
    /\ pc = "run_returned"
    /\ ~AnyFailed
    /\ NumCalls = 5
    /\ calls[2].ret = "hello\n"
    /\ result = Ok(255)

C3_ReadFails ==
    Failed("read") =>
        /\ CountOp("do_work") = 0
        /\ Ops = <<"write", "read">>
        /\ WriteTexts = <<Prompt>>
        /\ result.kind = "err"

C3_Witness ==
    /\ pc = "run_returned"
    /\ Failed("read")
    /\ calls[1].ok
    /\ out = <<Prompt>>

(* C4: when do_work fails with d, the only write of the run is the prompt  *)
(* and run returns d converted into the unified failure.                   *)
C4_DoWorkFails ==
    Failed("do_work") =>
        /\ Ops = <<"write", "read", "do_work">>
        /\ WriteTexts = <<Prompt>>
        /\ out = <<Prompt>>
        /\ result = Err(From(calls[3].ret))

C4_Witness ==
    /\ pc = "run_returned"
    /\ Failed("do_work")
    /\ calls[3].ret = LogicError("boom")
    /\ result.kind = "err"

(* C5 as stated: for every Input and Output implementation, a failure of a *)
(* write is returned as the Output case and a failure of the read as the   *)
(* Input case.                                                             *)
C5_Original ==
    (RunReturned /\ result.kind = "err") =>
        /\ Failed("write") => result.err.case = "Output"
        /\ Failed("read") => result.err.case = "Input"

(* C5 amended: run returns the failure of a write or of the read exactly   *)
(* as the collaborator returned it; with the Stdin and Stdout              *)
(* implementations a failed write is the Output case and a failed read the *)
(* Input case.                                                             *)
C5_Amended ==
    (RunReturned /\ result.kind = "err" /\ (Failed("write") \/ Failed("read"))) =>
        /\ result.err = FailedCall.ret
        /\ endpoint = "StdioEndpoint" =>
            /\ Failed("write") => result.err.case = "Output"
            /\ Failed("read") => result.err.case = "Input"

C5_Witness ==
    /\ pc = "run_returned"
    /\ endpoint = "StdioEndpoint"
    /\ NumCalls = 5
    /\ ~calls[5].ok
    /\ result = Err(Output(IoError("InvalidData")))

(* C6: converting any domain failure d gives the Logic case, displays as   *)
(* "Logic error" and has d itself as its source; so does the failure run   *)
(* returns when do_work fails with d.                                      *)
C6_FromLogicError ==
    /\ \A d \in LogicErrors :
        /\ From(d).case = "Logic"
        /\ Display(From(d)) = "Logic error"
        /\ source(From(d)) = Some(d)
    /\ Failed("do_work") =>
        /\ result.kind = "err"
        /\ result.err.case = "Logic"
        /\ Display(result.err) = "Logic error"
        /\ source(result.err) = Some(calls[3].ret)

C6_Witness ==
    /\ Failed("do_work")
    /\ result.kind = "err"
    /\ source(result.err) = Some(LogicError(""))

(* C7: a unified failure is one of three cases, the case alone fixes what  *)
(* it displays ("Input error" for Input(e), "Output error" for Output(e),  *)
(* whatever e is), and the wrapped failure is always its source.           *)
C7_CaseDeterminesText ==
    /\ Cardinality(FrameworkErrorCases) = 3
    /\ {fe.case : fe \in FrameworkErrors} = FrameworkErrorCases
    /\ \A e \in IoErrors :
        /\ Display(Input(e)) = "Input error"
        /\ Display(Output(e)) = "Output error"
    /\ \A fe \in FrameworkErrors : source(fe) = Some(fe.inner)
    /\ result.kind = "err" =>
        /\ result.err \in FrameworkErrors
        /\ result.err.case = "Input" => Display(result.err) = "Input error"
        /\ result.err.case = "Output" => Display(result.err) = "Output error"
        /\ source(result.err) = Some(result.err.inner)

C7_Witness ==
    /\ result.kind = "err"
    /\ result.err = Input(IoError("InvalidData"))
    /\ Failed("read")

(* C8: in main, the "Return value" line is in the output only when run     *)
(* returned Ok and then after the prompt, "You entered: " and the line     *)
(* read; when run failed the line is never printed and main returns that   *)
(* failure; when run returned Ok main returns Ok.                          *)
C8_MainOutcome ==
    caller = "main" =>
        /\ (\E i \in 1..Len(out) : out[i] = FormatReturnValue(WorkLogicValue)) =>
            /\ result = Ok(WorkLogicValue)
            /\ out = <<Prompt, Prefix, line, "Return value: 123.\n">>
        /\ (pc = "exit" /\ result.kind = "err") =>
            /\ mainResult = Err(result.err)
            /\ Len(out) <= 2
        /\ (pc = "exit" /\ result.kind = "ok") => mainResult = Ok("unit")

(* C10: read and do_work are called at most once and write at most three   *)
(* times; only the last call of a run can have failed, and then run        *)
(* returns a failure, never the computed result; what the output accepted  *)
(* is a prefix of <<prompt, "You entered: ", line read>> and is never      *)
(* taken back.                                                             *)
C10_Inv ==
    /\ CountOp("read") <= 1
    /\ CountOp("do_work") <= 1
    /\ CountOp("write") <= 3
    /\ \A i \in 1..NumCalls : ~calls[i].ok => i = NumCalls
    /\ AnyFailed => result.kind = "err" /\ RunReturned
    /\ RunOut = AcceptedTexts
    /\ IsPrefix(RunOut, <<Prompt, Prefix, line>>)

C10_Step == IsPrefix(out, out') /\ IsPrefix(calls, calls')

C10_FailureIsTerminal == []C10_Inv /\ [][C10_Step]_vars

C10_Witness ==
    /\ pc = "run_returned"
    /\ NumCalls = 4
    /\ ~calls[4].ok
    /\ out = <<Prompt>>
    /\ line = "hello"
    /\ result.kind = "err"

====
